---- MODULE Spec2Model ----
(***************************************************************************)
(* Three Streamlit programs of the repository.                             *)
(*                                                                         *)
(* Fair Expense Splitter (src/equal_share/equal_share.py).                 *)
(* The engine is two functions: compute_shares_and_nets turns a list of    *)
(* {name, paid} rows into integer amounts of the rounding unit, fair       *)
(* shares and nets; settle_transfers greedily matches debtors and          *)
(* creditors.  The "Quick split" form divides one total by a headcount.    *)
(* Text is modelled as a sequence of one-character strings,                *)
(* a decimal.Decimal as a record [cls, sign, coef, exp] whose value is     *)
(* (-1)^sign * coef * 10^(-exp), and a Python value by its class and its   *)
(* str() text.                                                             *)
(*                                                                         *)
(* Rock Paper Scissors (src/streamlit/rock_paper_scissors): the session    *)
(* state of one player and the buttons and sidebar controls that change    *)
(* it.                                                                     *)
(*                                                                         *)
(* Eco Sarees sign-up (src/streamlit/ecosaree_signup_form/sign_up.py):     *)
(* the form, its validation and the CSV file of registered users.          *)
(***************************************************************************)
EXTENDS Integers, Sequences, FiniteSets, TLC

VARIABLES
    people,         \* the caller's list of rows (argument of compute_shares_and_nets)
    rounding_unit,  \* the Decimal rounding unit (argument)
    pc,             \* position of the call sequence
    exc,            \* the exception that ended the call, or "none"
    df,             \* the per-participant table: rows name, paid_cents, share_cents, net_cents
    total_cents,    \* second component of the result of compute_shares_and_nets
    multiplier,     \* third component
    shares,         \* fourth component
    debtors,        \* settle_transfers: list of [name, amt] (row = position in df)
    creditors,      \* settle_transfers: list of [name, amt] (row = position in df)
    i,              \* settle_transfers: debtor cursor (0-based, as in the source)
    j,              \* settle_transfers: creditor cursor (0-based)
    transfers,      \* settle_transfers: list of <<d_name, c_name, pay>>
    xfer_rows,      \* history: for each transfer, <<row of debtor, row of creditor>>
    iters,          \* history: iterations of the settle_transfers loop so far
    exported,       \* export_df: per row, the paid_cents exported and the text of paid
    previous,       \* history: what the previous settle_transfers call on this table returned
    total_amount,   \* Quick split: the "Total amount" field (a float)
    headcount,      \* Quick split: the "Number of people" field (an int)
    quick,          \* Quick split: the locals of the submitted calculation
    session_state,  \* Rock Paper Scissors: st.session_state
    changed,        \* history: mode or setting changed since the first round of the match
    ignored,        \* history: move buttons pressed since the match was over
    name,           \* sign-up: the "Full Name" field
    age,            \* sign-up: the "Age" slider
    phone,          \* sign-up: the "Phone Number" field
    csv,            \* sign-up: eco_sarees_users.csv, [exists, rows]
    shown           \* sign-up: what the submission displayed

engineVars == <<people, rounding_unit, pc, exc, df, total_cents, multiplier, shares,
                debtors, creditors, i, j, transfers, xfer_rows, iters, exported, previous>>

quickVars == <<total_amount, headcount, quick>>

gameVars == <<session_state, changed, ignored>>

signupVars == <<name, age, phone, csv, shown>>

vars == <<engineVars, quickVars, gameVars, signupVars>>

-----------------------------------------------------------------------------
(* Bounds of the model *)

MaxPeople == 3

MaxRows == 3

MaxNet == 2

MaxUnits == 120

MaxTotalSteps == 300

MaxHeadcount == 3

-----------------------------------------------------------------------------
(* Generic helpers *)

RECURSIVE Pow10(_)
Pow10(n) == IF n = 0 THEN 1 ELSE 10 * Pow10(n - 1)

RECURSIVE SumSeq(_)
SumSeq(s) == IF s = <<>> THEN 0 ELSE Head(s) + SumSeq(Tail(s))

Min2(a, b) == IF a <= b THEN a ELSE b

Column(table, f) == [k \in 1..Len(table) |-> table[k][f]]

RECURSIVE SeqsUpTo(_, _)
SeqsUpTo(S, n) ==
    IF n = 0 THEN {<<>>}
    ELSE LET shorter == SeqsUpTo(S, n - 1)
         IN  shorter \cup {Append(s, x) : s \in {t \in shorter : Len(t) = n - 1}, x \in S}

-----------------------------------------------------------------------------
(* Text *)

DigitChars == {"0", "1", "2", "3", "4", "5", "6", "7", "8", "9"}

DigitVal(c) ==
    CASE c = "0" -> 0 [] c = "1" -> 1 [] c = "2" -> 2 [] c = "3" -> 3 [] c = "4" -> 4
      [] c = "5" -> 5 [] c = "6" -> 6 [] c = "7" -> 7 [] c = "8" -> 8 [] c = "9" -> 9

\* str.strip(): drop leading and trailing whitespace
RECURSIVE LStrip(_)
LStrip(s) == IF s # <<>> /\ Head(s) = " " THEN LStrip(Tail(s)) ELSE s

RECURSIVE RStrip(_)
RStrip(s) ==
    IF s # <<>> /\ s[Len(s)] = " " THEN RStrip(SubSeq(s, 1, Len(s) - 1)) ELSE s

strip(s) == RStrip(LStrip(s))

-----------------------------------------------------------------------------
(* decimal.Decimal *)

DecFin(sg, c, e) == [cls |-> "fin", sign |-> sg, coef |-> c, exp |-> e]

DecZero == DecFin(0, 0, 0)

DecInf(sg) == [cls |-> "inf", sign |-> sg, coef |-> 0, exp |-> 0]

DecNaN(sg) == [cls |-> "nan", sign |-> sg, coef |-> 0, exp |-> 0]

RECURSIVE DigitsValue(_)
DigitsValue(ds) ==
    IF ds = <<>> THEN 0
    ELSE 10 * DigitsValue(SubSeq(ds, 1, Len(ds) - 1)) + DigitVal(ds[Len(ds)])

AllDigits(s) == \A k \in 1..Len(s) : s[k] \in DigitChars

\* Decimal(text): the constructor's grammar over the characters the inputs use
\* (sign, digits, one point, "inf"/"infinity", "nan" with optional digits).
\* ok = FALSE stands for the InvalidOperation (ConversionSyntax) it raises.
DecimalFromStr(text) ==
    LET t      == strip(text)
        signed == t # <<>> /\ t[1] \in {"-", "+"}
        sg     == IF signed /\ t[1] = "-" THEN 1 ELSE 0
        body   == IF signed THEN Tail(t) ELSE t
        dots   == {k \in 1..Len(body) : body[k] = "."}
        dot    == IF dots = {} THEN Len(body) + 1 ELSE CHOOSE k \in dots : TRUE
        int    == SubSeq(body, 1, dot - 1)
        frac   == SubSeq(body, dot + 1, Len(body))
    IN  IF body \in {<<"i", "n", "f">>, <<"i", "n", "f", "i", "n", "i", "t", "y">>}
        THEN [ok |-> TRUE, dec |-> DecInf(sg)]
        ELSE IF Len(body) >= 3 /\ SubSeq(body, 1, 3) = <<"n", "a", "n">>
                /\ AllDigits(SubSeq(body, 4, Len(body)))
        THEN [ok |-> TRUE, dec |-> DecNaN(sg)]
        ELSE IF Cardinality(dots) <= 1 /\ AllDigits(int) /\ AllDigits(frac)
                /\ Len(int) + Len(frac) >= 1
        THEN [ok |-> TRUE, dec |-> DecFin(sg, DigitsValue(int \o frac), Len(frac))]
        ELSE [ok |-> FALSE, dec |-> DecZero]

\* A Python value: its class, its str() text, and its value when it is a Decimal
PyValue(type, text) == [ty |-> type, text |-> text, dec |-> DecZero]

PyDecimal(d) == [ty |-> "Decimal", text |-> <<>>, dec |-> d]

DigitChar(v) == <<"0", "1", "2", "3", "4", "5", "6", "7", "8", "9">>[v + 1]

\* str() of a non-negative int
RECURSIVE IntToDigits(_)
IntToDigits(n) ==
    IF n < 10 THEN <<DigitChar(n)>>
    ELSE IntToDigits(n \div 10) \o <<DigitChar(n % 10)>>

ReprFloatOneDecimal(units, mult) ==
    LET h == units * (100 \div mult)
    IN  IntToDigits(h \div 100) \o <<".", DigitChar((h % 100) \div 10)>>

\* str() of the float units / mult, for the multipliers 1, 20 and 100 and
\* amounts a float holds exactly to the hundredth: the shortest text that
\* reads back as that float, with at least one digit after the point
ReprFloat(units, mult) ==
    LET h == units * (100 \div mult)
        f == h % 100
    IN  IntToDigits(h \div 100) \o <<".">> \o
          (IF f % 10 = 0 THEN <<DigitChar(f \div 10)>>
                         ELSE <<DigitChar(f \div 10), DigitChar(f % 10)>>)

ReprSignedFloat(units, mult) ==
    IF units < 0 THEN <<"-">> \o ReprFloat(0 - units, mult) ELSE ReprFloat(units, mult)

\* Other roundings of the magnitude num/den (num, den >= 0): floor and half-even
FloorDiv(num, den) == num \div den

HalfEvenDiv(num, den) ==
    LET q == num \div den
        r == num % den
    IN  IF 2 * r > den \/ (2 * r = den /\ q % 2 = 1) THEN q + 1 ELSE q

\* to_integral_value(rounding=ROUND_HALF_UP) of the magnitude num/den
HalfUpDiv(num, den) ==
    LET q == num \div den
        r == num % den
    IN  IF 2 * r >= den THEN q + 1 ELSE q

-----------------------------------------------------------------------------
(* Helpers of the engine *)

to_decimal_strict(x) ==
    IF x.ty = "Decimal" THEN x.dec
    ELSE LET r == DecimalFromStr(x.text)
         IN  IF r.ok THEN r.dec ELSE DecNaN(0)

\* to_decimal(x): a Decimal is returned as it is; anything else goes through
\* Decimal(str(x)), and a failed conversion gives Decimal(0)
to_decimal(x) ==
    IF x.ty = "Decimal" THEN x.dec
    ELSE LET r == DecimalFromStr(x.text)
         IN  IF r.ok THEN r.dec ELSE DecZero

\* (p.get("name") or "").strip() or "Person"
Placeholder == <<"P", "e", "r", "s", "o", "n">>

CleanNameNoDefault(p) == strip(IF p.has_name THEN p.name ELSE <<>>)

CleanName(p) ==
    LET raw      == IF p.has_name THEN p.name ELSE <<>>
        stripped == strip(raw)
    IN  IF stripped = <<>> THEN Placeholder ELSE stripped

\* p.get("paid", 0)
PaidOrDefault(p) == IF p.has_paid THEN p.paid ELSE PyValue("int", <<"0">>)

PaidCentsNoClamp(p, mult) ==
    LET paid_raw == to_decimal(PaidOrDefault(p))
        units    == HalfUpDiv(paid_raw.coef * mult, Pow10(paid_raw.exp))
    IN  IF paid_raw.cls = "nan"
        THEN [exc |-> "InvalidOperation", paid_cents |-> 0]
        ELSE IF paid_raw.cls = "inf"
        THEN [exc |-> "OverflowError", paid_cents |-> 0]
        ELSE [exc |-> "none",
              paid_cents |-> IF paid_raw.sign = 1 THEN 0 - units ELSE units]

\* Lines 47-50 for one row: the exception the row raises ("none" if it does not)
\* and the row's paid_cents.  Decimal raises InvalidOperation when a NaN is
\* ordered against 0, and int() raises OverflowError on an infinity.
PaidCents(p, mult) ==
    LET paid_raw == to_decimal(PaidOrDefault(p))
    IN  IF paid_raw.cls = "nan"
        THEN [exc |-> "InvalidOperation", paid_cents |-> 0]
        ELSE IF paid_raw.sign = 1 /\ (paid_raw.cls = "inf" \/ paid_raw.coef > 0)
        THEN [exc |-> "none", paid_cents |-> 0]
        ELSE IF paid_raw.cls = "inf"
        THEN [exc |-> "OverflowError", paid_cents |-> 0]
        ELSE [exc |-> "none",
              paid_cents |-> HalfUpDiv(paid_raw.coef * mult, Pow10(paid_raw.exp))]

\* int((Decimal(1) / unit).to_integral_value(rounding=ROUND_HALF_UP))
Multiplier(unit) == HalfUpDiv(Pow10(unit.exp), unit.coef)

\* The extra unit of the remainder, by 0-based position k
ExtraLast(k, n, remainder) == IF k >= n - remainder THEN 1 ELSE 0

ExtraNone(k, n, remainder) == 0

ExtraOffByOne(k, n, remainder) == IF k <= remainder THEN 1 ELSE 0

ExtraAllToFirst(k, n, remainder) == IF k = 0 THEN remainder ELSE 0

ExtraFirst(k, n, remainder) == IF k < remainder THEN 1 ELSE 0

\* shares = [base_share + (1 if i < remainder else 0) for i in range(n)]
FairShares(total, n) ==
    LET base_share == total \div n
        remainder  == total % n
    IN  [k \in 1..n |-> base_share + ExtraFirst(k - 1, n, remainder)]

\* unit_map: the rounding units the sidebar offers
unit_map ==
    { DecimalFromStr(<<"0", ".", "0", "1">>).dec,
      DecimalFromStr(<<"1">>).dec,
      DecimalFromStr(<<"0", ".", "0", "5">>).dec }

-----------------------------------------------------------------------------
(* Inputs *)

\* The "name" entry of a row: absent, empty, blank, plain or padded text
NameInputs ==
    { [has |-> FALSE, text |-> <<>>],
      [has |-> TRUE,  text |-> <<>>],
      [has |-> TRUE,  text |-> <<" ">>],
      [has |-> TRUE,  text |-> <<"A">>],
      [has |-> TRUE,  text |-> <<" ", "B", " ">>] }

\* The "paid" entry of a row: absent, or a value given by its class and str()
PaidInputs ==
    { [has |-> FALSE, val |-> PyValue("NoneType", <<>>)],
      [has |-> TRUE,  val |-> PyValue("float", <<"0", ".", "0", "0", "5">>)],
      [has |-> TRUE,  val |-> PyValue("float", <<"0", ".", "5">>)],
      [has |-> TRUE,  val |-> PyValue("float", <<"0", ".", "0", "2", "5">>)],
      [has |-> TRUE,  val |-> PyValue("float", <<"-", "0", ".", "5">>)],
      [has |-> TRUE,  val |-> PyValue("str",   <<"a", "b", "c">>)],
      [has |-> TRUE,  val |-> PyValue("float", <<"n", "a", "n">>)],
      [has |-> TRUE,  val |-> PyValue("float", <<"i", "n", "f">>)] }

Person(nm, pd) ==
    [has_name |-> nm.has, name |-> nm.text, has_paid |-> pd.has, paid |-> pd.val]

\* A row varies in its amount or in its name: the code treats the two
\* entries independently (line 46 reads the name, lines 47-50 the amount)
PersonInputs ==
    { Person([has |-> TRUE, text |-> <<"A">>], pd) : pd \in PaidInputs }
    \cup
    { Person(nm, [has |-> TRUE, val |-> PyValue("float", <<"0", ".", "5">>)]) :
        nm \in NameInputs }

RowLabel(k) == <<"R", <<"1", "2", "3", "4", "5", "6", "7", "8", "9">>[k]>>

\* A table handed to settle_transfers directly: any integer nets
TableOf(nets) ==
    [k \in 1..Len(nets) |->
        [name        |-> RowLabel(k),
         paid_cents  |-> IF nets[k] > 0 THEN nets[k] ELSE 0,
         share_cents |-> IF nets[k] < 0 THEN 0 - nets[k] ELSE 0,
         net_cents   |-> nets[k]]]

-----------------------------------------------------------------------------
(* compute_shares_and_nets *)

NoRowsNever(n) == FALSE

\* if not rows (line 53)
NoRows(n) == n = 0

Compute ==
    /\ pc = "call"
    /\ LET mult == Multiplier(rounding_unit)
           outs == [k \in 1..Len(people) |-> PaidCents(people[k], mult)]
           bad  == {k \in 1..Len(people) : outs[k].exc # "none"}
           n    == Len(people)
           tot  == SumSeq([k \in 1..n |-> outs[k].paid_cents])
           shs  == FairShares(tot, n)
       IN  IF bad # {}
           THEN /\ pc' = "raised"
                /\ exc' = outs[CHOOSE k \in bad : \A m \in bad : k <= m].exc
                /\ UNCHANGED <<df, total_cents, multiplier, shares>>
           ELSE IF NoRows(n)
           THEN /\ pc' = "computed"
                /\ df' = <<>>
                /\ total_cents' = 0
                /\ multiplier' = mult
                /\ shares' = <<>>
                /\ UNCHANGED exc
           ELSE IF n = 0
           THEN \* total_cents // n with n = 0 (line 60)
                /\ pc' = "raised"
                /\ exc' = "ZeroDivisionError"
                /\ UNCHANGED <<df, total_cents, multiplier, shares>>
           ELSE /\ pc' = "computed"
                /\ df' = [k \in 1..n |->
                            [name        |-> CleanName(people[k]),
                             paid_cents  |-> outs[k].paid_cents,
                             share_cents |-> shs[k],
                             net_cents   |-> outs[k].paid_cents - shs[k]]]
                /\ total_cents' = tot
                /\ multiplier' = mult
                /\ shares' = shs
                /\ UNCHANGED exc
    /\ UNCHANGED <<people, rounding_unit, debtors, creditors, i, j, transfers, xfer_rows,
                   iters, exported, previous>>
    /\ UNCHANGED <<quickVars, gameVars, signupVars>>

-----------------------------------------------------------------------------
(* settle_transfers *)

\* The rows of the table from row k on whose net has the sign sgn (-1 or 1),
\* in table order, as [name, amount]; row is the row's position in the table
SelectedFlipped(net, sgn) == net * sgn < 0

\* if net < 0 (sgn = -1) ... elif net > 0 (sgn = 1)
Selected(net, sgn) == net * sgn > 0

RECURSIVE PartitionReversed(_, _, _)
PartitionReversed(table, sgn, k) ==
    IF k > Len(table) THEN <<>>
    ELSE LET net  == table[k].net_cents
             rest == PartitionReversed(table, sgn, k + 1)
         IN  IF Selected(net, sgn)
             THEN rest \o <<[name |-> table[k].name, amt |-> net * sgn, row |-> k]>>
             ELSE rest

RECURSIVE Partition(_, _, _)
Partition(table, sgn, k) ==
    IF k > Len(table) THEN <<>>
    ELSE LET net  == table[k].net_cents
             rest == Partition(table, sgn, k + 1)
         IN  IF Selected(net, sgn)
             THEN <<[name |-> table[k].name, amt |-> net * sgn, row |-> k]>> \o rest
             ELSE rest

PayAll(d_amt, c_amt) == d_amt

PayOne(d_amt, c_amt) == 1

\* pay = min(d_amt, c_amt)
Pay(d_amt, c_amt) == Min2(d_amt, c_amt)

TransferSwapped(d, c, pay) ==
    [tuple |-> <<c.name, d.name, pay>>, rows |-> <<c.row, d.row>>]

\* transfers.append((d_name, c_name, pay)), with the rows the names came from
TransferOf(d, c, pay) ==
    [tuple |-> <<d.name, c.name, pay>>, rows |-> <<d.row, c.row>>]

TableDebited(table, d, c, pay) ==
    [k \in 1..Len(table) |->
        IF k = d.row THEN [table[k] EXCEPT !.net_cents = @ + pay]
        ELSE IF k = c.row THEN [table[k] EXCEPT !.net_cents = @ - pay]
        ELSE table[k]]

\* The table after one iteration of the loop: d_amt -= pay and c_amt -= pay
\* write to the entries of the lists debtors and creditors, which were built
\* from copies of the rows' values, so the table keeps its rows
TableAfter(table, d, c, pay) == table

\* No result of an earlier call on this table
NoPrevious == [has |-> FALSE, transfers |-> <<>>]

SettleStart ==
    /\ pc \in {"computed", "table"}
    /\ debtors' = Partition(df, -1, 1)
    /\ creditors' = Partition(df, 1, 1)
    /\ transfers' = <<>>
    /\ xfer_rows' = <<>>
    /\ i' = 0
    /\ j' = 0
    /\ iters' = 0
    /\ pc' = "settling"
    /\ UNCHANGED <<people, rounding_unit, exc, df, total_cents, multiplier, shares, exported,
                   previous>>
    /\ UNCHANGED <<quickVars, gameVars, signupVars>>

SettleStep ==
    /\ pc = "settling"
    /\ i < Len(debtors) /\ j < Len(creditors)
    /\ LET d     == debtors[i + 1]
           c     == creditors[j + 1]
           pay   == Pay(d.amt, c.amt)
           d_amt == d.amt - pay
           c_amt == c.amt - pay
       IN  /\ transfers' = IF pay > 0
                           THEN Append(transfers, TransferOf(d, c, pay).tuple)
                           ELSE transfers
           /\ xfer_rows' = IF pay > 0
                           THEN Append(xfer_rows, TransferOf(d, c, pay).rows)
                           ELSE xfer_rows
           /\ debtors' = [debtors EXCEPT ![i + 1].amt = d_amt]
           /\ creditors' = [creditors EXCEPT ![j + 1].amt = c_amt]
           /\ i' = IF d_amt = 0 THEN i + 1 ELSE i
           /\ j' = IF c_amt = 0 THEN j + 1 ELSE j
           /\ df' = TableAfter(df, d, c, pay)
    /\ iters' = iters + 1
    /\ UNCHANGED <<people, rounding_unit, pc, exc, total_cents, multiplier, shares,
                   exported, previous>>
    /\ UNCHANGED <<quickVars, gameVars, signupVars>>

SettleReturn ==
    /\ pc = "settling"
    /\ ~(i < Len(debtors) /\ j < Len(creditors))
    /\ pc' = "done"
    /\ UNCHANGED <<people, rounding_unit, exc, df, total_cents, multiplier, shares,
                   debtors, creditors, i, j, transfers, xfer_rows, iters, exported,
                   previous>>
    /\ UNCHANGED <<quickVars, gameVars, signupVars>>

\* settle_transfers called once more on the table it was given before
SettleAgain ==
    /\ pc = "done"
    /\ previous' = [has |-> TRUE, transfers |-> transfers]
    /\ debtors' = Partition(df, -1, 1)
    /\ creditors' = Partition(df, 1, 1)
    /\ transfers' = <<>>
    /\ xfer_rows' = <<>>
    /\ i' = 0
    /\ j' = 0
    /\ iters' = 0
    /\ pc' = "settling"
    /\ UNCHANGED <<people, rounding_unit, exc, df, total_cents, multiplier, shares, exported>>
    /\ UNCHANGED <<quickVars, gameVars, signupVars>>

-----------------------------------------------------------------------------
(* Export of the breakdown, and its amounts entered again *)

\* export_df["paid"] = export_df["paid_cents"] / multiplier, and so on
Export ==
    /\ pc = "done"
    /\ exported' = [k \in 1..Len(df) |->
                      [units |-> df[k].paid_cents,
                       paid  |-> ReprFloat(df[k].paid_cents, multiplier),
                       share |-> ReprFloat(df[k].share_cents, multiplier),
                       net   |-> ReprSignedFloat(df[k].net_cents, multiplier)]]
    /\ pc' = "exported"
    /\ UNCHANGED <<people, rounding_unit, exc, df, total_cents, multiplier, shares,
                   debtors, creditors, i, j, transfers, xfer_rows, iters, previous>>
    /\ UNCHANGED <<quickVars, gameVars, signupVars>>

\* The exported names and paid amounts become the rows of the next calculation
Reimport ==
    /\ pc = "exported"
    /\ people' = [k \in 1..Len(exported) |->
                    Person([has |-> TRUE, text |-> df[k].name],
                           [has |-> TRUE, val |-> PyValue("float", exported[k].paid)])]
    /\ pc' = "call"
    /\ UNCHANGED <<rounding_unit, exc, df, total_cents, multiplier, shares,
                   debtors, creditors, i, j, transfers, xfer_rows, iters, exported,
                   previous>>
    /\ UNCHANGED <<quickVars, gameVars, signupVars>>

-----------------------------------------------------------------------------
(* The "Quick split" form *)

\* str() of the float k / 1000, for amounts a float holds exactly to the
\* thousandth: the digits with the trailing zeros dropped, one kept at least
ReprThousandths(k) ==
    LET f  == k % 1000
        d1 == f \div 100
        d2 == (f \div 10) % 10
        d3 == f % 10
    IN  IntToDigits(k \div 1000) \o <<".">> \o
          (IF d3 # 0 THEN <<DigitChar(d1), DigitChar(d2), DigitChar(d3)>>
           ELSE IF d2 # 0 THEN <<DigitChar(d1), DigitChar(d2)>>
           ELSE <<DigitChar(d1)>>)

\* The form before it is submitted
NotSubmitted ==
    [submitted |-> FALSE, exc |-> "none", multiplier |-> 0, total_cents |-> 0,
     base_share |-> 0, remainder |-> 0, shares |-> <<>>]

QuickRoundDown(num, den) == FloorDiv(num, den)

\* .to_integral_value(rounding=ROUND_HALF_UP) of the magnitude num / den
QuickRound(num, den) == HalfUpDiv(num, den)

\* int(d.to_integral_value(...)) for the Decimal d * mult: the exception
\* int() raises on a NaN or an infinity, else the signed integer
QuickUnits(d, mult) ==
    IF d.cls = "nan" THEN [exc |-> "ValueError", total_cents |-> 0]
    ELSE IF d.cls = "inf" THEN [exc |-> "OverflowError", total_cents |-> 0]
    ELSE [exc         |-> "none",
          total_cents |-> IF d.sign = 1
                          THEN 0 - QuickRound(d.coef * mult, Pow10(d.exp))
                          ELSE QuickRound(d.coef * mult, Pow10(d.exp))]

\* total_cents = int((to_decimal(total_amount) * multiplier).to_integral_value(...))
QuickCents(x, mult) == QuickUnits(to_decimal(x), mult)

\* base_share, remainder and shares for n people, and the locals as a record
QuickShares(out, mult, n) ==
    LET base == out.total_cents \div n
        rem  == out.total_cents % n
    IN  IF out.exc # "none"
        THEN [NotSubmitted EXCEPT !.submitted = TRUE, !.exc = out.exc, !.multiplier = mult]
        ELSE [submitted   |-> TRUE,
              exc         |-> "none",
              multiplier  |-> mult,
              total_cents |-> out.total_cents,
              base_share  |-> base,
              remainder   |-> rem,
              shares      |-> [k \in 1..n |-> base + (IF k - 1 < rem THEN 1 ELSE 0)]]

\* "Calculate per-person share" pressed
QuickSplit ==
    /\ ~quick.submitted
    /\ quick' = QuickShares(QuickCents(total_amount, Multiplier(rounding_unit)),
                            Multiplier(rounding_unit), headcount)
    /\ UNCHANGED <<engineVars, total_amount, headcount, gameVars, signupVars>>

\* The form as the page first shows it: total 0.0, two people
QuickIdle ==
    /\ total_amount = PyValue("float", <<"0", ".", "0">>)
    /\ headcount = 2
    /\ quick = NotSubmitted

-----------------------------------------------------------------------------
(* Rock Paper Scissors *)

MaxRounds == 3

MOVES == {"Rock", "Paper", "Scissors"}

GameModes == {"Single Round", "Best of N", "Race to Score"}

\* The values tried in the "Best of" and "Target score" number inputs
\* (1..99 and 1..50 in the source)
BestOfInputs == {1, 2, 3}

TargetInputs == {1, 2, 3}

determine_winner(player, computer) ==
    IF player = computer THEN "Draw"
    ELSE IF <<player, computer>> \in {<<"Rock", "Scissors">>, <<"Scissors", "Paper">>,
                                      <<"Paper", "Rock">>}
    THEN "Player"
    ELSE "Computer"

\* The moves choose_computer_move can return.  Every strategy reaches
\* random.choice(MOVES) with positive probability (always for Easy, when
\* random.random() < 0.6 for Medium and < 0.15 for Hard), so every move can
\* come back whatever the difficulty and the history are.
choose_computer_move(difficulty, history, use_strategy) == MOVES

\* The session state the script sets up on its first run
SessionDefaults ==
    [player_name   |-> "Guest",
     player_score  |-> 0,
     comp_score    |-> 0,
     draws         |-> 0,
     rounds_played |-> 0,
     history       |-> <<>>,
     game_mode     |-> "Single Round",
     best_of       |-> 3,
     target_score  |-> 3,
     difficulty    |-> "Medium",
     use_strategy  |-> TRUE,
     game_over     |-> FALSE,
     last_result   |-> <<>>,
     streak        |-> 0,
     last_winner   |-> "None"]

\* The nine assignments of "Reset current game" and of "Play again"
MatchReset(ss) ==
    [ss EXCEPT !.player_score = 0, !.comp_score = 0, !.draws = 0, !.rounds_played = 0,
               !.history = <<>>, !.game_over = FALSE, !.last_result = <<>>,
               !.streak = 0, !.last_winner = "None"]

BlockedNever(over) == FALSE

\* if st.session_state.game_over: return
Blocked(over) == over

TallyNoDraws(ss, winner) ==
    IF winner = "Player" THEN [ss EXCEPT !.player_score = @ + 1]
    ELSE IF winner = "Computer" THEN [ss EXCEPT !.comp_score = @ + 1]
    ELSE ss

\* The score the round's winner adds to
Tally(ss, winner) ==
    IF winner = "Player" THEN [ss EXCEPT !.player_score = @ + 1]
    ELSE IF winner = "Computer" THEN [ss EXCEPT !.comp_score = @ + 1]
    ELSE [ss EXCEPT !.draws = @ + 1]

MatchOverByMajority(ss) ==
    IF ss.game_mode = "Single Round" THEN TRUE
    ELSE IF ss.game_mode = "Best of N"
    THEN ss.rounds_played >= ss.best_of
         \/ 2 * ss.player_score > ss.best_of \/ 2 * ss.comp_score > ss.best_of
         \/ ss.game_over
    ELSE IF ss.game_mode = "Race to Score"
    THEN ss.player_score >= ss.target_score \/ ss.comp_score >= ss.target_score
         \/ ss.game_over
    ELSE ss.game_over

MatchOverByTotal(ss) ==
    IF ss.game_mode = "Single Round" THEN TRUE
    ELSE IF ss.game_mode = "Best of N"
    THEN ss.rounds_played >= ss.best_of \/ ss.game_over
    ELSE IF ss.game_mode = "Race to Score"
    THEN ss.player_score + ss.comp_score >= ss.target_score \/ ss.game_over
    ELSE ss.game_over

\* "check game end conditions": game_over after the round, from the state
\* the round has already updated
MatchOver(ss) ==
    IF ss.game_mode = "Single Round" THEN TRUE
    ELSE IF ss.game_mode = "Best of N"
    THEN ss.rounds_played >= ss.best_of \/ ss.game_over
    ELSE IF ss.game_mode = "Race to Score"
    THEN ss.player_score >= ss.target_score \/ ss.comp_score >= ss.target_score
         \/ ss.game_over
    ELSE ss.game_over

\* play_round(player_move) with the computer answering computer_move.  The
\* time of day of the history entry is left out: no step reads it.
RoundPlayed(ss, player_move, computer_move) ==
    LET winner  == determine_winner(player_move, computer_move)
        rounds  == ss.rounds_played + 1
        entry   == [round         |-> rounds,
                    player_move   |-> player_move,
                    computer_move |-> computer_move,
                    winner        |-> winner]
        counted == [ss EXCEPT !.rounds_played = rounds,
                              !.history = Append(ss.history, entry)]
        scored  == Tally(counted, winner)
        tracked == [scored EXCEPT
                      !.streak = IF ss.last_winner = winner THEN ss.streak + 1 ELSE 1,
                      !.last_winner = winner,
                      !.last_result = <<player_move, "vs", computer_move, winner>>]
    IN  [tracked EXCEPT !.game_over = MatchOver(tracked)]

\* One of the three move buttons pressed
PlayRound ==
    /\ \E player_move \in MOVES :
          IF Blocked(session_state.game_over)
          THEN /\ ~ignored
               /\ ignored' = TRUE
               /\ UNCHANGED <<session_state, changed>>
          ELSE /\ session_state.rounds_played < MaxRounds
               /\ \E computer_move \in choose_computer_move(session_state.difficulty,
                                                             session_state.history,
                                                             session_state.use_strategy) :
                     session_state' = RoundPlayed(session_state, player_move, computer_move)
               /\ UNCHANGED <<changed, ignored>>
    /\ UNCHANGED <<engineVars, quickVars, signupVars>>

\* The sidebar button "Reset current game"
ResetCurrentGame ==
    /\ session_state' = MatchReset(session_state)
    /\ changed' = FALSE
    /\ ignored' = FALSE
    /\ UNCHANGED <<engineVars, quickVars, signupVars>>

\* "Play again", shown once the match is over
PlayAgain ==
    /\ session_state.game_over
    /\ session_state' = MatchReset(session_state)
    /\ changed' = FALSE
    /\ ignored' = FALSE
    /\ UNCHANGED <<engineVars, quickVars, signupVars>>

\* "Reset everything (including name)": every key is deleted and the rerun
\* sets the session state up again
ResetEverything ==
    /\ session_state.game_over
    /\ session_state' = SessionDefaults
    /\ changed' = FALSE
    /\ ignored' = FALSE
    /\ UNCHANGED <<engineVars, quickVars, signupVars>>

\* The sidebar radio "Game mode" set to another mode
SelectGameMode ==
    /\ \E mode \in GameModes \ {session_state.game_mode} :
          session_state' = [session_state EXCEPT !.game_mode = mode]
    /\ changed' = (changed \/ session_state.rounds_played > 0)
    /\ UNCHANGED <<ignored, engineVars, quickVars, signupVars>>

\* The number input "Best of (odd number)", shown in the mode "Best of N"
EnterBestOf ==
    /\ session_state.game_mode = "Best of N"
    /\ \E n \in BestOfInputs \ {session_state.best_of} :
          session_state' = [session_state EXCEPT !.best_of = n]
    /\ changed' = (changed \/ session_state.rounds_played > 0)
    /\ UNCHANGED <<ignored, engineVars, quickVars, signupVars>>

\* The number input "Target score", shown in the mode "Race to Score"
EnterTargetScore ==
    /\ session_state.game_mode = "Race to Score"
    /\ \E t \in TargetInputs \ {session_state.target_score} :
          session_state' = [session_state EXCEPT !.target_score = t]
    /\ changed' = (changed \/ session_state.rounds_played > 0)
    /\ UNCHANGED <<ignored, engineVars, quickVars, signupVars>>

\* The session of a player who has just opened the page
GameIdle ==
    /\ session_state = SessionDefaults
    /\ changed = FALSE
    /\ ignored = FALSE

-----------------------------------------------------------------------------
(* Eco Sarees sign-up *)

MaxUsers == 2

TenDigits == <<"9", "8", "7", "6", "5", "4", "3", "2", "1", "0">>

\* What is typed into "Full Name"
NameFieldInputs == {<<>>, <<" ">>, <<" ", "B", " ">>}

\* Where the "Age" slider is left (1..100 in the source, 25 when untouched)
AgeInputs == {25, 26}

\* What is typed into "Phone Number" (at most 15 characters): nothing, a
\* blank, too few digits, ten digits, a leading "+", a leading zero, fifteen
\* digits, padding on either side, a letter, two "+"
PhoneInputs ==
    { <<>>,
      <<" ">>,
      SubSeq(TenDigits, 1, 9),
      <<"+">> \o SubSeq(TenDigits, 1, 9),
      <<"+">> \o TenDigits,
      <<"0">> \o TenDigits,
      TenDigits \o SubSeq(TenDigits, 1, 5),
      <<" ">> \o TenDigits,
      TenDigits \o <<" ">>,
      SubSeq(TenDigits, 1, 9) \o <<"x">>,
      <<"+", "+">> \o TenDigits }

re_match_phone(text) ==
    LET body == IF text # <<>> /\ text[1] = "+" THEN Tail(text) ELSE text
    IN  /\ Len(body) >= 10
        /\ AllDigits(SubSeq(body, 1, 10))

\* re.fullmatch(r"^\+?\d{10,15}$", phone): an optional "+", then ten to
\* fifteen digits, and nothing else
re_fullmatch_phone(text) ==
    LET body == IF text # <<>> /\ text[1] = "+" THEN Tail(text) ELSE text
    IN  /\ Len(body) >= 10
        /\ Len(body) <= 15
        /\ AllDigits(body)

\* str() of the integer pandas.read_csv makes of a cell of digits with an
\* optional sign: the sign "+" and the leading zeros are gone
RECURSIVE IntegerText(_)
IntegerText(text) ==
    IF text # <<>> /\ text[1] = "+" THEN IntegerText(Tail(text))
    ELSE IF Len(text) > 1 /\ text[1] = "0" THEN IntegerText(Tail(text))
    ELSE text

\* pd.read_csv(CSV_FILE): the phone column of a file this form wrote holds
\* only integers, so it is read as numbers; names and ages read back as
\* they were written
read_csv(rows) ==
    [k \in 1..Len(rows) |-> [rows[k] EXCEPT !.Phone = IntegerText(@)]]

\* "Sign Up" pressed with the fields filled in
SignUp ==
    \E nm \in NameFieldInputs, ag \in AgeInputs, ph \in PhoneInputs :
        /\ name' = nm
        /\ age' = ag
        /\ phone' = ph
        /\ IF strip(nm) = <<>>
           THEN /\ shown' = "Please enter your name."
                /\ UNCHANGED csv
           ELSE IF strip(ph) = <<>>
           THEN /\ shown' = "Please enter your phone number."
                /\ UNCHANGED csv
           ELSE IF ~re_fullmatch_phone(ph)
           THEN /\ shown' = "Please enter a valid phone number."
                /\ UNCHANGED csv
           ELSE LET new_entry == [Name |-> strip(nm), Age |-> ag, Phone |-> strip(ph)]
                IN  /\ Len(csv.rows) < MaxUsers
                    /\ csv' = IF csv.exists
                              THEN [exists |-> TRUE,
                                    rows   |-> Append(read_csv(csv.rows), new_entry)]
                              ELSE [exists |-> TRUE, rows |-> <<new_entry>>]
                    /\ shown' = "Welcome"
        /\ UNCHANGED <<engineVars, quickVars, gameVars>>

\* The form before anything is typed, and no file yet
SignupIdle ==
    /\ name = <<>>
    /\ age = 25
    /\ phone = <<>>
    /\ csv = [exists |-> FALSE, rows |-> <<>>]
    /\ shown = "nothing"

-----------------------------------------------------------------------------
(* Specifications *)

Blank ==
    /\ exc = "none"
    /\ total_cents = 0
    /\ multiplier = 0
    /\ shares = <<>>
    /\ debtors = <<>>
    /\ creditors = <<>>
    /\ i = 0
    /\ j = 0
    /\ transfers = <<>>
    /\ xfer_rows = <<>>
    /\ iters = 0
    /\ exported = <<>>
    /\ previous = NoPrevious

\* The engine: compute_shares_and_nets on any list, then settle_transfers
Init ==
    /\ people \in SeqsUpTo(PersonInputs, MaxPeople)
    /\ rounding_unit \in unit_map
    /\ pc = "call"
    /\ df = <<>>
    /\ Blank
    /\ QuickIdle
    /\ GameIdle
    /\ SignupIdle

Next == Compute \/ SettleStart \/ SettleStep \/ SettleReturn

Spec == Init /\ [][Next]_vars

\* The engine on lists in the style of the "Detailed" tab: named rows with
\* float amounts of two decimals
ExamplePersons ==
    { Person([has |-> TRUE, text |-> nm], [has |-> TRUE, val |-> PyValue("float", amt)]) :
        nm  \in {<<"A">>, <<"B">>, <<"C">>},
        amt \in {<<"1", "0", ".", "0">>, <<"1", "0", ".", "0", "1">>} }

InitExample ==
    /\ people \in SeqsUpTo(ExamplePersons, MaxPeople)
    /\ rounding_unit \in unit_map
    /\ pc = "call"
    /\ df = <<>>
    /\ Blank
    /\ QuickIdle
    /\ GameIdle
    /\ SignupIdle

SpecExample == InitExample /\ [][Next]_vars

\* An amount of `units` rounding units, as a Decimal
UnitsOf(units, unit) == DecFin(0, units * unit.coef, unit.exp)

\* Calculate, export, enter the exported amounts again, and so on
InitExport ==
    /\ rounding_unit \in unit_map
    /\ \E u \in 0..MaxUnits :
          people = << Person([has |-> TRUE, text |-> <<"A">>],
                             [has |-> TRUE, val |-> PyDecimal(UnitsOf(u, rounding_unit))]),
                      Person([has |-> TRUE, text |-> <<"B">>],
                             [has |-> TRUE, val |-> PyDecimal(DecZero)]) >>
    /\ pc = "call"
    /\ df = <<>>
    /\ Blank
    /\ QuickIdle
    /\ GameIdle
    /\ SignupIdle

NextExport ==
    Compute \/ SettleStart \/ SettleStep \/ SettleReturn \/ Export \/ Reimport

SpecExport == InitExport /\ [][NextExport]_vars

\* settle_transfers alone, on any table of integer nets
InitSettle ==
    /\ people = <<>>
    /\ rounding_unit = DecimalFromStr(<<"0", ".", "0", "1">>).dec
    /\ pc = "table"
    /\ df \in {TableOf(nets) : nets \in SeqsUpTo((0 - MaxNet)..MaxNet, MaxRows)}
    /\ Blank
    /\ QuickIdle
    /\ GameIdle
    /\ SignupIdle

NextSettle == SettleStart \/ SettleStep \/ SettleReturn

SpecSettle == InitSettle /\ [][NextSettle]_vars

\* The same, with the call running on: a synchronous function keeps taking
\* its next step
SpecSettleFair == SpecSettle /\ WF_vars(NextSettle)

\* The engine, with settle_transfers called again on a table it has settled
NextTwice == Compute \/ SettleStart \/ SettleStep \/ SettleReturn \/ SettleAgain

SpecTwice == Init /\ [][NextTwice]_vars

\* A list of n rows of which row `payer` paid the whole total and the others 0.0
OnePaid(total, n, payer) ==
    [k \in 1..n |->
        Person([has |-> TRUE, text |-> RowLabel(k)],
               [has |-> TRUE,
                val |-> IF k = payer THEN total ELSE PyValue("float", <<"0", ".", "0">>)])]

\* The totals entered in "Total amount": 0.0, 0.005, 0.01, ...
QuickTotals == {PyValue("float", ReprThousandths(5 * m)) : m \in 0..MaxTotalSteps}

\* The Quick split form and the engine side by side: the form's total and
\* headcount, and the engine's list for the same split
InitQuick ==
    /\ rounding_unit \in unit_map
    /\ total_amount \in QuickTotals
    /\ headcount \in 1..MaxHeadcount
    /\ \E payer \in 1..headcount : people = OnePaid(total_amount, headcount, payer)
    /\ quick = NotSubmitted
    /\ pc = "call"
    /\ df = <<>>
    /\ Blank
    /\ GameIdle
    /\ SignupIdle

NextQuick == QuickSplit \/ Compute

SpecQuick == InitQuick /\ [][NextQuick]_vars

\* The expense splitter left as it opens
EngineIdle ==
    /\ people = <<>>
    /\ rounding_unit = DecimalFromStr(<<"0", ".", "0", "1">>).dec
    /\ pc = "call"
    /\ df = <<>>
    /\ Blank
    /\ QuickIdle

\* Rock Paper Scissors: one session, any sequence of presses
InitGame ==
    /\ GameIdle
    /\ EngineIdle
    /\ SignupIdle

NextGame ==
    \/ PlayRound
    \/ ResetCurrentGame
    \/ PlayAgain
    \/ ResetEverything
    \/ SelectGameMode
    \/ EnterBestOf
    \/ EnterTargetScore

SpecGame == InitGame /\ [][NextGame]_vars

\* The sign-up form: any sequence of submissions
InitSignup ==
    /\ SignupIdle
    /\ EngineIdle
    /\ GameIdle

NextSignup == SignUp

SpecSignup == InitSignup /\ [][NextSignup]_vars

-----------------------------------------------------------------------------
(* Properties of compute_shares_and_nets *)

Returned == pc = "computed"

Unit001 == DecFin(0, 1, 2)

Unit1 == DecFin(0, 1, 0)

Unit005 == DecFin(0, 5, 2)

\* C1 (conservation): for a non-empty list and any supported rounding unit,
\* the returned shares sum to total_cents, and total_cents is the sum of the
\* paid_cents, as exact integers, divisible total or not.
C1_Conservation ==
    (Returned /\ Len(people) >= 1) =>
        /\ Len(shares) = Len(people)
        /\ SumSeq(shares) = total_cents
        /\ SumSeq(Column(df, "share_cents")) = total_cents
        /\ total_cents = SumSeq(Column(df, "paid_cents"))

C1_Witness ==
    /\ pc = "computed"
    /\ Len(people) = 3
    /\ rounding_unit = Unit005
    /\ total_cents % 3 = 2

\* C2 (zero-sum): for n >= 1 the returned net_cents are paid_cents - share_cents
\* row by row and sum to exactly 0.
C2_ZeroSum ==
    (Returned /\ Len(people) >= 1) =>
        /\ \A k \in 1..Len(df) :
              df[k].net_cents = df[k].paid_cents - df[k].share_cents
        /\ SumSeq(Column(df, "net_cents")) = 0

C2_Witness ==
    /\ pc = "computed"
    /\ Len(df) = 3
    /\ total_cents % 3 = 1
    /\ \E k \in 1..3 : df[k].net_cents > 0
    /\ \E k \in 1..3 : df[k].net_cents < 0

\* C6 (fairness bound): for n >= 1 no two returned shares differ by more than 1.
C6_FairnessBound ==
    (Returned /\ Len(people) >= 1) =>
        \A a, b \in 1..Len(shares) : shares[a] - shares[b] <= 1

C6_Witness ==
    /\ pc = "computed"
    /\ Len(shares) = 3
    /\ total_cents % 3 = 2
    /\ shares[1] - shares[3] = 1

\* C7 (allocation rule): with base = total_cents // n and remainder =
\* total_cents % n, exactly the first `remainder` participants in input order
\* get base + 1 and every later participant gets base.
C7_AllocationRule ==
    (Returned /\ Len(people) >= 1) =>
        LET n         == Len(people)
            base      == total_cents \div n
            remainder == total_cents % n
        IN  /\ {k \in 1..n : df[k].share_cents = base + 1} = 1..remainder
            /\ {k \in 1..n : df[k].share_cents = base} = (remainder + 1)..n
            /\ \A k \in 1..n : shares[k] = df[k].share_cents

C7_Witness ==
    /\ pc = "computed"
    /\ Len(people) = 3
    /\ total_cents % 3 = 1
    /\ total_cents \div 3 >= 1

\* The amount of row k, in rounding units, as the fraction num / den
AmountNum(k) == to_decimal(PaidOrDefault(people[k])).coef * Pow10(rounding_unit.exp)

AmountDen(k) == rounding_unit.coef * Pow10(to_decimal(PaidOrDefault(people[k])).exp)

\* The amount of row k is non-negative and exactly halfway between two units
IsTie(k) ==
    LET d == to_decimal(PaidOrDefault(people[k]))
    IN  /\ d.cls = "fin"
        /\ d.sign = 0
        /\ (2 * AmountNum(k)) % AmountDen(k) = 0
        /\ ((2 * AmountNum(k)) \div AmountDen(k)) % 2 = 1

\* C8 (half-up tie-break): a non-negative amount exactly halfway between two
\* multiples of the rounding unit is normalized to the larger multiple.
C8_HalfUp ==
    pc = "computed" =>
        \A k \in 1..Len(people) :
            IsTie(k) => df[k].paid_cents = (AmountNum(k) \div AmountDen(k)) + 1

C8_Witness ==
    /\ pc = "computed"
    /\ rounding_unit = Unit001
    /\ \E k \in 1..Len(people) : IsTie(k) /\ df[k].paid_cents = 3
    /\ \E k \in 1..Len(people) : IsTie(k) /\ df[k].paid_cents = 1

\* The paid value of row k is present and is no number for Decimal
Unparseable(k) ==
    /\ people[k].has_paid
    /\ people[k].paid.ty # "Decimal"
    /\ ~ DecimalFromStr(people[k].paid.text).ok

Without(seq, k) == SubSeq(seq, 1, k - 1) \o SubSeq(seq, k + 1, Len(seq))

\* The call on rows `rows` returns normally (no row raises)
RowsReturn(rows) ==
    \A m \in 1..Len(rows) : PaidCents(rows[m], Multiplier(rounding_unit)).exc = "none"

\* C9 (unparseable amount degrades per row): a row whose paid value cannot be
\* parsed gets paid_cents = 0, every other row is normalized exactly as in the
\* call without that row, and the call returns whenever the call without that
\* row returns.
C9_UnparseableDegrades ==
    pc # "call" =>
        \A k \in 1..Len(people) : Unparseable(k) =>
            LET rest == Without(people, k)
            IN  /\ (pc = "raised") <=> ~ RowsReturn(rest)
                /\ Returned =>
                     /\ Len(df) = Len(people)
                     /\ df[k].paid_cents = 0
                     /\ \A m \in 1..Len(rest) :
                          Without(df, k)[m].paid_cents
                            = PaidCents(rest[m], Multiplier(rounding_unit)).paid_cents

C9_Witness ==
    /\ pc = "computed"
    /\ Len(people) = 2
    /\ Unparseable(1)
    /\ df[1].paid_cents = 0
    /\ df[2].paid_cents = 50
    /\ total_cents = 50

\* C10 (no input raises): whatever the rows hold, compute_shares_and_nets
\* followed by settle_transfers never raises an exception.
C10_NeverRaises == pc # "raised"

\* The paid value of row k is a negative amount
Negative(k) ==
    LET d == to_decimal(PaidOrDefault(people[k]))
    IN  d.sign = 1 /\ (d.cls = "inf" \/ d.coef > 0)

\* C11 (negative amounts are clamped): a row whose paid amount is negative
\* gets paid_cents = 0, and every paid_cents, share_cents and total_cents of
\* the result is >= 0.
C11_NegativeClamped ==
    pc = "computed" =>
        /\ \A k \in 1..Len(people) : Negative(k) => df[k].paid_cents = 0
        /\ \A k \in 1..Len(df) : df[k].paid_cents >= 0 /\ df[k].share_cents >= 0
        /\ \A k \in 1..Len(shares) : shares[k] >= 0
        /\ total_cents >= 0

C11_Witness ==
    /\ pc = "computed"
    /\ Len(people) = 2
    /\ Negative(1)
    /\ df[1].paid_cents = 0
    /\ total_cents = 50

\* C12 (empty participant list): on an empty list compute_shares_and_nets
\* returns an empty table, total 0 and no shares without raising, and
\* settle_transfers on that table returns no transfers.
C12_EmptyList ==
    Len(people) = 0 =>
        /\ pc # "raised"
        /\ pc \in {"computed", "settling", "done"} =>
              df = <<>> /\ total_cents = 0 /\ shares = <<>>
        /\ pc = "done" => transfers = <<>>

C12_Witness ==
    /\ pc = "done"
    /\ people = <<>>
    /\ df = <<>>
    /\ transfers = <<>>
    /\ multiplier = 20

\* The name of row k is absent, empty or only whitespace
BlankName(k) ==
    \/ ~ people[k].has_name
    \/ \A c \in 1..Len(people[k].name) : people[k].name[c] = " "

\* C13 (blank or missing name): a row whose name is absent, empty or only
\* whitespace is kept, with the placeholder as its name, and every output
\* row has a non-empty name.
C13_BlankNamePlaceholder ==
    pc = "computed" =>
        /\ Len(df) = Len(people)
        /\ \A k \in 1..Len(df) :
              /\ df[k].name # <<>>
              /\ BlankName(k) => df[k].name = Placeholder

C13_Witness ==
    /\ pc = "computed"
    /\ Len(people) = 3
    /\ ~ people[1].has_name
    /\ people[2].has_name /\ people[2].name = <<>>
    /\ people[3].has_name /\ people[3].name = <<" ">>
    /\ \A k \in 1..3 : df[k].name = Placeholder

\* A paid 10.00, B paid 10.00, C paid 10.01
ExampleABC ==
    << Person([has |-> TRUE, text |-> <<"A">>],
              [has |-> TRUE, val |-> PyValue("float", <<"1", "0", ".", "0">>)]),
       Person([has |-> TRUE, text |-> <<"B">>],
              [has |-> TRUE, val |-> PyValue("float", <<"1", "0", ".", "0">>)]),
       Person([has |-> TRUE, text |-> <<"C">>],
              [has |-> TRUE, val |-> PyValue("float", <<"1", "0", ".", "0", "1">>)]) >>

\* C17 (worked example): for A 10.00, B 10.00, C 10.01 and unit 0.01 the engine
\* yields paid = [1000, 1000, 1001], shares = [1001, 1000, 1000],
\* nets = [-1, 0, +1] and exactly the one transfer (A, C, 1).
C17_WorkedExample ==
    (people = ExampleABC /\ rounding_unit = Unit001) =>
        /\ pc # "raised"
        /\ pc \in {"computed", "settling", "done"} =>
              /\ Column(df, "paid_cents") = <<1000, 1000, 1001>>
              /\ shares = <<1001, 1000, 1000>>
              /\ Column(df, "share_cents") = <<1001, 1000, 1000>>
              /\ Column(df, "net_cents") = <<-1, 0, 1>>
              /\ total_cents = 3001
        /\ pc = "done" => transfers = << << <<"A">>, <<"C">>, 1 >> >>

C17_Witness ==
    /\ pc = "done"
    /\ people = ExampleABC
    /\ rounding_unit = Unit001
    /\ Len(transfers) = 1

-----------------------------------------------------------------------------
(* Properties of settle_transfers *)

\* What row k pays and receives in the returned transfers
PaidOut(k) ==
    SumSeq([t \in 1..Len(transfers) |->
              IF xfer_rows[t][1] = k THEN transfers[t][3] ELSE 0])

Received(k) ==
    SumSeq([t \in 1..Len(transfers) |->
              IF xfer_rows[t][2] = k THEN transfers[t][3] ELSE 0])

NumDebtors == Cardinality({k \in 1..Len(df) : df[k].net_cents < 0})

NumCreditors == Cardinality({k \in 1..Len(df) : df[k].net_cents > 0})

\* C3 (settlement correctness): for the nets compute_shares_and_nets produced,
\* applying the returned transfers leaves every participant at zero:
\* net + paid out - received = 0.
C3_SettlementCorrect ==
    pc = "done" =>
        /\ Len(xfer_rows) = Len(transfers)
        /\ \A t \in 1..Len(transfers) :
              /\ transfers[t][1] = df[xfer_rows[t][1]].name
              /\ transfers[t][2] = df[xfer_rows[t][2]].name
        /\ \A k \in 1..Len(df) : df[k].net_cents + PaidOut(k) - Received(k) = 0

C3_Witness ==
    /\ pc = "done"
    /\ Len(transfers) = 2
    /\ NumDebtors = 2

\* C4 as stated (settlement bound): the number of transfers is at most
\* (number of debtors + number of creditors - 1).
C4_BoundAsStated ==
    pc = "done" => Len(transfers) <= NumDebtors + NumCreditors - 1

\* C4 as amended: the number of transfers is at most (debtors + creditors - 1)
\* when some participant has a non-zero net, and is 0 when every net is zero.
C4_SettlementBound ==
    pc = "done" =>
        IF NumDebtors + NumCreditors > 0
        THEN Len(transfers) <= NumDebtors + NumCreditors - 1
        ELSE Len(transfers) = 0

C4_Witness ==
    /\ pc = "done"
    /\ NumDebtors + NumCreditors = 3
    /\ Len(transfers) = 2

\* C5 (zero-sum violation is fatal): given nets whose sum is not zero,
\* settle_transfers does not return a transfer list.
C5_NonZeroSumNotReturned ==
    pc = "done" => SumSeq(Column(df, "net_cents")) = 0

\* C15 (transfer shape): every returned transfer has a strictly positive
\* amount, comes from a row whose net is negative and goes to a row whose net
\* is positive, so no row with net zero pays or receives.
C15_TransferShape ==
    pc = "done" =>
        /\ Len(xfer_rows) = Len(transfers)
        /\ \A t \in 1..Len(transfers) :
              /\ transfers[t][3] > 0
              /\ df[xfer_rows[t][1]].net_cents < 0
              /\ df[xfer_rows[t][2]].net_cents > 0
              /\ transfers[t][1] = df[xfer_rows[t][1]].name
              /\ transfers[t][2] = df[xfer_rows[t][2]].name
        /\ \A k \in 1..Len(df) : df[k].net_cents = 0 =>
              \A t \in 1..Len(xfer_rows) : k # xfer_rows[t][1] /\ k # xfer_rows[t][2]

C15_Witness ==
    /\ pc = "done"
    /\ Len(df) = 3
    /\ df[2].net_cents = 0
    /\ df[1].net_cents < 0
    /\ df[3].net_cents > 0
    /\ Len(transfers) = 1

\* C16 (transfer order): debtors and creditors are taken in table order, and
\* along the returned transfers the row of the paying debtor never decreases,
\* nor does the row of the receiving creditor.
C16_TransferOrder ==
    pc = "done" =>
        /\ \A a, b \in 1..Len(debtors) : a < b => debtors[a].row < debtors[b].row
        /\ \A a, b \in 1..Len(creditors) : a < b => creditors[a].row < creditors[b].row
        /\ \A t \in 1..(Len(xfer_rows) - 1) :
              /\ xfer_rows[t][1] <= xfer_rows[t + 1][1]
              /\ xfer_rows[t][2] <= xfer_rows[t + 1][2]

C16_Witness ==
    /\ pc = "done"
    /\ xfer_rows = <<<<1, 3>>, <<2, 3>>>>

\* C18 (simultaneous exhaustion): when the nets sum to zero the loop ends
\* with both cursors past the end of their lists and with every remaining
\* debt and credit equal to 0.
C18_BothExhausted ==
    (pc = "done" /\ SumSeq(Column(df, "net_cents")) = 0) =>
        /\ i = Len(debtors)
        /\ j = Len(creditors)
        /\ \A a \in 1..Len(debtors) : debtors[a].amt = 0
        /\ \A b \in 1..Len(creditors) : creditors[b].amt = 0

C18_Witness ==
    /\ pc = "done"
    /\ SumSeq(Column(df, "net_cents")) = 0
    /\ Len(debtors) = 1
    /\ Len(creditors) = 2
    /\ Len(transfers) = 2
    /\ i = 1 /\ j = 2

\* C19 (settlement terminates): for any integer nets every iteration of the
\* loop advances the debtor cursor, the creditor cursor or both, the loop runs
\* at most (number of debtors + number of creditors) iterations, and the
\* call returns.
C19_Terminates ==
    /\ [][(pc = "settling" /\ pc' = "settling") =>
            /\ i' >= i /\ j' >= j
            /\ i' > i \/ j' > j]_vars
    /\ [](pc \in {"settling", "done"} => iters <= Len(debtors) + Len(creditors))
    /\ [](pc = "table" => <>(pc = "done"))

C19_Witness ==
    /\ pc = "done"
    /\ SumSeq(Column(df, "net_cents")) # 0
    /\ iters = 2
    /\ i = 1 /\ j = 1
    /\ debtors[2].amt = 1

-----------------------------------------------------------------------------
(* Quick split against the engine, and the frame of the two functions *)

\* C21 (Quick split agrees with the engine): for a total >= 0, a headcount
\* n >= 1 and each supported rounding unit, the shares the Quick split form
\* computes are the shares compute_shares_and_nets returns for n participants
\* of whom one paid the whole total; the total in units and the multiplier
\* agree as well.
C21_QuickSplitAgrees ==
    (quick.submitted /\ pc # "call") =>
        /\ pc = "computed"
        /\ quick.exc = "none"
        /\ quick.multiplier = multiplier
        /\ quick.total_cents = total_cents
        /\ quick.shares = shares

C21_Witness ==
    /\ quick.submitted
    /\ pc = "computed"
    /\ rounding_unit = Unit005
    /\ total_amount.text = <<"0", ".", "0", "7", "5">>
    /\ headcount = 3
    /\ people[3].paid = total_amount
    /\ quick.shares = <<1, 1, 0>>
    /\ shares = <<1, 1, 0>>

\* C22 (no side effects on inputs): compute_shares_and_nets leaves the
\* caller's list and every record of it unchanged; settle_transfers leaves
\* the names and the net_cents of its table unchanged; and settling the same
\* table a second time returns the transfers of the first time.
C22_NoSideEffects ==
    [][/\ pc = "call" => (people' = people /\ rounding_unit' = rounding_unit)
       /\ pc \in {"computed", "settling", "done"} =>
             /\ people' = people
             /\ Column(df', "name") = Column(df, "name")
             /\ Column(df', "net_cents") = Column(df, "net_cents")
       /\ (pc' = "done" /\ previous'.has) => transfers' = previous'.transfers]_vars

C22_Witness ==
    /\ pc = "done"
    /\ previous.has
    /\ Len(previous.transfers) = 2
    /\ Len(transfers) = 2
    /\ Len(people) = 3

-----------------------------------------------------------------------------
(* Inside the settlement loop *)

\* The amounts of the entries after the cursor (0-based) of a list
RemainingFrom(list, cursor) ==
    SumSeq([k \in 1..(Len(list) - cursor) |-> list[cursor + k].amt])

AtIterationStart == pc = "settling" /\ i < Len(debtors) /\ j < Len(creditors)

\* C23 (balanced remainder): when the nets sum to zero, at the start of every
\* iteration of the loop the debt remaining from the debtor cursor on equals
\* the credit remaining from the creditor cursor on, the current debtor's debt
\* and the current creditor's credit are both strictly positive, and so every
\* iteration so far has recorded a transfer.
C23_BalancedRemainder ==
    SumSeq(Column(df, "net_cents")) = 0 =>
        /\ AtIterationStart =>
              /\ RemainingFrom(debtors, i) = RemainingFrom(creditors, j)
              /\ debtors[i + 1].amt > 0
              /\ creditors[j + 1].amt > 0
        /\ pc \in {"settling", "done"} => Len(transfers) = iters

C23_Witness ==
    /\ AtIterationStart
    /\ SumSeq(Column(df, "net_cents")) = 0
    /\ iters = 1
    /\ i = 1 /\ j = 0
    /\ RemainingFrom(debtors, i) = 1
    /\ creditors[1].amt = 1

\* C24 (no repeated pair): no (debtor, creditor) pair of participants, taken
\* by their positions in the list, is in more than one transfer.
C24_NoRepeatedPair ==
    \A a, b \in 1..Len(xfer_rows) : a # b => xfer_rows[a] # xfer_rows[b]

C24_Witness ==
    /\ pc = "done"
    /\ Len(xfer_rows) = 2
    /\ xfer_rows[1][1] = xfer_rows[2][1]
    /\ transfers[1][3] = 1 /\ transfers[2][3] = 1

\* C25 (transfers identify participants unambiguously): no two distinct
\* participants of the result of compute_shares_and_nets carry the same name,
\* a placeholder included, so each name of a transfer designates exactly one
\* participant.
C25_NamesDesignateOne ==
    /\ Returned =>
          \A a, b \in 1..Len(df) : a # b => df[a].name # df[b].name
    /\ pc = "done" =>
          \A t \in 1..Len(transfers) :
              /\ Cardinality({k \in 1..Len(df) : df[k].name = transfers[t][1]}) = 1
              /\ Cardinality({k \in 1..Len(df) : df[k].name = transfers[t][2]}) = 1

-----------------------------------------------------------------------------
(* Properties of Rock Paper Scissors *)

\* C26 (score bookkeeping): after any sequence of rounds, "Reset current
\* game" and "Play again", rounds_played = player_score + comp_score + draws
\* = length of the history, and the history's round numbers are
\* 1..rounds_played in order.
C26_ScoreBookkeeping ==
    LET ss == session_state
    IN  /\ ss.rounds_played = ss.player_score + ss.comp_score + ss.draws
        /\ ss.rounds_played = Len(ss.history)
        /\ \A k \in 1..Len(ss.history) : ss.history[k].round = k

C26_Witness ==
    /\ session_state.rounds_played = 3
    /\ session_state.player_score = 1
    /\ session_state.comp_score = 1
    /\ session_state.draws = 1
    /\ session_state.history[3].round = 3
    /\ changed

\* The fields a finished match keeps
Frozen(ss) ==
    <<ss.player_score, ss.comp_score, ss.draws, ss.rounds_played, ss.history,
      ss.streak, ss.last_winner, ss.last_result>>

\* C27 (a finished match is frozen): once game_over is true, a step leaves
\* player_score, comp_score, draws, rounds_played, history, streak,
\* last_winner and last_result unchanged, a move button pressed included,
\* unless it is "Play again", "Reset current game" or "Reset everything".
C27_FinishedMatchFrozen ==
    [][session_state.game_over =>
          \/ Frozen(session_state') = Frozen(session_state)
          \/ ResetCurrentGame
          \/ PlayAgain
          \/ ResetEverything]_vars

C27_Witness ==
    /\ session_state.game_over
    /\ ignored
    /\ session_state.game_mode = "Race to Score"
    /\ session_state.rounds_played = 2

\* C28 (match length): with the mode and its setting unchanged during the
\* match, a "Single Round" match is over after exactly 1 round, and a
\* "Best of N" match is over exactly when rounds_played reaches N: not
\* earlier, whatever the scores, and no round is played after.
C28_MatchLength ==
    LET ss == session_state
    IN  ~changed =>
          /\ ss.game_mode = "Single Round" =>
                /\ ss.game_over <=> ss.rounds_played = 1
                /\ ss.rounds_played <= 1
          /\ ss.game_mode = "Best of N" =>
                /\ ss.game_over <=> ss.rounds_played = ss.best_of
                /\ ss.rounds_played <= ss.best_of

C28_Witness ==
    /\ ~changed
    /\ session_state.game_mode = "Best of N"
    /\ session_state.best_of = 3
    /\ session_state.game_over
    /\ session_state.rounds_played = 3
    /\ session_state.history[1].winner = "Player"
    /\ session_state.history[2].winner = "Player"
    /\ session_state.history[3].winner = "Draw"

\* The headline of the match summary
MatchSummary(ss) ==
    IF ss.player_score > ss.comp_score THEN "player won"
    ELSE IF ss.comp_score > ss.player_score THEN "computer won"
    ELSE "tie"

\* C29 (Race to Score has a unique winner): with the mode and the target T
\* unchanged during the match, a finished match has exactly one of
\* player_score and comp_score equal to T and the other below T, and the
\* summary never reports a tie.
C29_RaceUniqueWinner ==
    LET ss == session_state
        T  == ss.target_score
    IN  (~changed /\ ss.game_mode = "Race to Score" /\ ss.game_over) =>
          /\ \/ ss.player_score = T /\ ss.comp_score < T
             \/ ss.comp_score = T /\ ss.player_score < T
          /\ MatchSummary(ss) # "tie"

C29_Witness ==
    /\ ~changed
    /\ session_state.game_mode = "Race to Score"
    /\ session_state.target_score = 2
    /\ session_state.game_over
    /\ session_state.comp_score = 2
    /\ session_state.player_score = 1

-----------------------------------------------------------------------------
(* Properties of the sign-up form *)

\* An optional "+" followed by 10 to 15 digits
PlusThenDigits(text) ==
    \E plus \in {<<>>, <<"+">>} :
        \E len \in 10..15 :
            /\ Len(text) = Len(plus) + len
            /\ SubSeq(text, 1, Len(plus)) = plus
            /\ \A k \in (Len(plus) + 1)..Len(text) : text[k] \in DigitChars

ErrorsShown ==
    {"Please enter your name.", "Please enter your phone number.",
     "Please enter a valid phone number."}

====
